---- MODULE Spec2Model ----
(***************************************************************************)
(* A model of etl.py: process_data drives process_song_file or            *)
(* process_log_file over the JSON files found under a root directory and  *)
(* commits after every file.  The SQL statements of sql_queries.py and    *)
(* the relational store are modelled from their description: keyed        *)
(* upserts for songs, artists, time and users, an appending insert for    *)
(* songplays, and the song_select join.                                   *)
(***************************************************************************)
EXTENDS Integers, Sequences, FiniteSets, TLC

VARIABLES
    func,        \* the handler passed to process_data: "song" or "log"
    rootExists,  \* whether the root directory exists and is readable
    pc,          \* position of the run inside process_data / the handler
    num_files,   \* len(all_files)
    i,           \* enumerate(all_files, 1) index of the current file
    raw,         \* the frame pd.read_json returned for the current file
    df,          \* the frame the handler iterates over
    pos,         \* row position inside the current iterrows loop
    store,       \* the tables as the open transaction sees them
    committed,   \* the tables as of the last conn.commit()
    error,       \* the exception that ended the run, or NoError
    stdout,      \* the lines printed so far
    calls,       \* history: number of func(cur, datafile) invocations
    commits,     \* history: number of conn.commit() calls
    pending,     \* history: indices of the files with uncommitted writes
    executed,    \* history: the statements executed for the current file
    catalogLog,  \* history: the catalog statements of every returned handler
    failedAt     \* history: index of the file whose handler raised, or 0

vars == <<func, rootExists, pc, num_files, i, raw, df, pos, store, committed,
          error, stdout, calls, commits, pending, executed, catalogLog,
          failedAt>>

-----------------------------------------------------------------------------
(* Bounds of the model. *)

\* Files under data/song_data.
MaxSongFiles == 3

\* Files under data/log_data.
MaxLogFiles == 2

\* Rows (records, events) in one file.
MaxRows == 2

\* Catalog files loaded before a run over the activity logs starts.
MaxCatalog == 1

-----------------------------------------------------------------------------
(* Values. *)

None == "None"

NoRow == <<>>

NoError == "none"

\* A file as read_json sees it: text that parses into rows, or text that does not.
File(rows) == [parses |-> TRUE, rows |-> rows]

Malformed == [parses |-> FALSE, rows |-> <<>>]

Rec(sid, title, aid, name, dur) ==
    [song_id |-> sid, title |-> title, artist_id |-> aid, year |-> 2000,
     duration |-> dur, artist_name |-> name, artist_location |-> "L",
     artist_latitude |-> None, artist_longitude |-> None]

\* Catalog records: one song, a second song of another artist with the same
\* title, name and duration, a retitled first song, a second song that
\* renames the first artist, and a second song of another duration.
CatalogRecords ==
    { Rec("S1", "T1", "A1", "N1", 200),
      Rec("S2", "T1", "A2", "N1", 200),
      Rec("S1", "T2", "A1", "N1", 200),
      Rec("S2", "T1", "A1", "N2", 200),
      Rec("S2", "T1", "A2", "N1", 201) }

SeqsUpTo(S, n) == UNION { [1..k -> S] : k \in 0..n }

\* What a catalog file can hold: malformed text, or 0..MaxRows records.
CatalogFiles ==
    {Malformed} \cup {File(rows) : rows \in SeqsUpTo(CatalogRecords, MaxRows)}

\* Activity events: two plays at different times of different titles, and a
\* page view that is no play.
Event(page, ts, song) ==
    [page |-> page, ts |-> ts, userId |-> "U1", firstName |-> "F",
     lastName |-> "L", gender |-> "G", level |-> "free", song |-> song,
     artist |-> IF song = None THEN None ELSE "N1",
     length |-> IF song = None THEN 0 ELSE 200,
     sessionId |-> 1, location |-> "L", userAgent |-> "UA"]

LogEvents ==
    { Event("NextSong", 0, "T1"),
      Event("NextSong", 90061001, "T2"),
      Event("Home", 0, None) }

\* What an activity-log file can hold: malformed text, or 0..MaxRows events.
LogFiles ==
    {Malformed} \cup {File(rows) : rows \in SeqsUpTo(LogEvents, MaxRows)}

\* A table is the sequence of its rows in insertion order.
EmptyStore ==
    [songs |-> <<>>, artists |-> <<>>, time |-> <<>>, users |-> <<>>,
     songplays |-> <<>>]

-----------------------------------------------------------------------------
(* The store: statements of sql_queries.py. *)

HasKey(table, key, v) == \E k \in DOMAIN table : table[k][key] = v

\* A plain INSERT into a table without a key: every row is added.
InsertOnly(table, key, row) == Append(table, row)

\* INSERT ... ON CONFLICT (key) DO UPDATE: the row replaces the one holding
\* its key, or is added.
Upsert(table, key, row) ==
    IF HasKey(table, key, row[key])
       THEN [k \in DOMAIN table |->
                IF table[k][key] = row[key] THEN row ELSE table[k]]
       ELSE Append(table, row)

\* song_table_insert: upsert on song_id.
SongInsert(s, p) ==
    [s EXCEPT !.songs = Upsert(@, "song_id",
        [song_id |-> p[1], title |-> p[2], artist_id |-> p[3],
         year |-> p[4], duration |-> p[5]])]

\* artist_table_insert: upsert on artist_id.
ArtistInsert(s, p) ==
    [s EXCEPT !.artists = Upsert(@, "artist_id",
        [artist_id |-> p[1], name |-> p[2], location |-> p[3],
         latitude |-> p[4], longitude |-> p[5]])]

\* time_table_insert: upsert on start_time.
TimeInsert(s, p) ==
    [s EXCEPT !.time = Upsert(@, "start_time",
        [start_time |-> p[1], hour |-> p[2], day |-> p[3], week |-> p[4],
         month |-> p[5], year |-> p[6], weekday |-> p[7]])]

\* user_table_insert: upsert on user_id, the last level wins.
UserInsert(s, p) ==
    [s EXCEPT !.users = Upsert(@, "user_id",
        [user_id |-> p[1], first_name |-> p[2], last_name |-> p[3],
         gender |-> p[4], level |-> p[5]])]

\* songplay_table_insert: a new row under the next serial identifier.
SongplayInsert(s, p) ==
    [s EXCEPT !.songplays = Append(@,
        [songplay_id |-> Len(@) + 1, start_time |-> p[1], user_id |-> p[2],
         level |-> p[3], song_id |-> p[4], artist_id |-> p[5],
         session_id |-> p[6], location |-> p[7], user_agent |-> p[8]])]

\* song_select: the (song_id, artist_id) of every song joined to its artist
\* whose title, artist name and duration equal the parameters.
SongSelect(s, p) ==
    { <<s.songs[m].song_id, s.artists[n].artist_id>> :
        <<m, n>> \in { x \in (DOMAIN s.songs) \X (DOMAIN s.artists) :
            /\ s.songs[x[1]].artist_id = s.artists[x[2]].artist_id
            /\ s.songs[x[1]].title = p[1]
            /\ s.artists[x[2]].name = p[2]
            /\ s.songs[x[1]].duration = p[3] } }

\* cur.fetchone(): a row of the result, in no stated order, or no row.
FetchOne(result) == IF result = {} THEN {NoRow} ELSE result

Execute(s, stmt) ==
    CASE stmt.table = "songs" -> SongInsert(s, stmt.params)
      [] stmt.table = "artists" -> ArtistInsert(s, stmt.params)
      [] stmt.table = "time" -> TimeInsert(s, stmt.params)
      [] stmt.table = "users" -> UserInsert(s, stmt.params)
      [] stmt.table = "songplays" -> SongplayInsert(s, stmt.params)

-----------------------------------------------------------------------------
(* process_song_file *)

\* The song columns of the last record instead of the first.
SongDataLast(frame) ==
    LET r == frame[Len(frame)]
    IN  <<r.song_id, r.title, r.artist_id, r.year, r.duration>>

\* df[['song_id','title','artist_id','year','duration']].values[0]
SongData(frame) ==
    LET r == frame[1]
    IN  <<r.song_id, r.title, r.artist_id, r.year, r.duration>>

\* The artist columns of the last record instead of the first.
ArtistDataLast(frame) ==
    LET r == frame[Len(frame)]
    IN  <<r.artist_id, r.artist_name, r.artist_location, r.artist_latitude,
          r.artist_longitude>>

\* df[['artist_id','artist_name','artist_location','artist_latitude',
\*     'artist_longitude']].values[0]
ArtistData(frame) ==
    LET r == frame[1]
    IN  <<r.artist_id, r.artist_name, r.artist_location, r.artist_latitude,
          r.artist_longitude>>

Stmt(table, params) == [table |-> table, params |-> params]

-----------------------------------------------------------------------------
(* process_data *)

\* os.walk yields nothing for a directory it cannot list (its onerror is
\* None), so all_files is empty for a missing root.
Walk(exists, onDisk) == IF exists THEN onDisk ELSE 0

FoundLine(n) == <<"files found", n>>

ProgressLine(k, n) == <<"files processed", k, n>>

\* The failing file is skipped and the loop goes on.
RaiseAndContinue(err) ==
    /\ pc' = IF i < num_files THEN "call" ELSE "done"
    /\ i' = IF i < num_files THEN i + 1 ELSE i
    /\ error' = err
    /\ failedAt' = i
    /\ store' = committed
    /\ pending' = {}
    /\ df' = <<>>
    /\ raw' = <<>>
    /\ pos' = 0
    /\ executed' = <<>>
    /\ UNCHANGED <<func, rootExists, num_files, committed, stdout, commits,
                   catalogLog>>

\* An exception leaves process_data: nothing after it runs, and the open
\* transaction is lost with the connection.
Raise(err) ==
    /\ pc' = "aborted"
    /\ error' = err
    /\ failedAt' = i
    /\ store' = committed
    /\ pending' = {}
    /\ df' = <<>>
    /\ raw' = <<>>
    /\ pos' = 0
    /\ executed' = <<>>
    /\ UNCHANGED <<func, rootExists, num_files, i, committed, stdout, commits,
                   catalogLog>>

\* A missing root raises before anything is collected.
DiscoverStrict ==
    /\ pc = "start"
    /\ IF rootExists
          THEN \E onDisk \in 0..(IF func = "song" THEN MaxSongFiles ELSE MaxLogFiles) :
                  /\ num_files' = onDisk
                  /\ stdout' = Append(stdout, <<"files found", onDisk>>)
                  /\ i' = IF onDisk > 0 THEN 1 ELSE 0
                  /\ pc' = IF onDisk > 0 THEN "call" ELSE "done"
                  /\ error' = error
          ELSE /\ pc' = "aborted"
               /\ error' = "DiscoveryError"
               /\ UNCHANGED <<num_files, stdout, i>>
    /\ UNCHANGED <<func, rootExists, raw, df, pos, store, committed,
                   calls, commits, pending, executed, catalogLog, failedAt>>

\* Lines 101-109: collect the files, print their number, enter the loop.
Discover ==
    /\ pc = "start"
    /\ \E onDisk \in 0..(IF func = "song" THEN MaxSongFiles ELSE MaxLogFiles) :
          LET n == Walk(rootExists, onDisk)
          IN  /\ num_files' = n
              /\ stdout' = Append(stdout, FoundLine(n))
              /\ i' = IF n > 0 THEN 1 ELSE 0
              /\ pc' = IF n > 0 THEN "call" ELSE "done"
    /\ UNCHANGED <<func, rootExists, raw, df, pos, store, committed, error,
                   calls, commits, pending, executed, catalogLog, failedAt>>

\* One commit after the loop instead of one per file.
CommitAtEnd ==
    /\ pc = "commit"
    /\ IF i < num_files
          THEN /\ i' = i + 1
               /\ pc' = "call"
               /\ UNCHANGED <<committed, commits, pending>>
          ELSE /\ i' = i
               /\ pc' = "done"
               /\ committed' = store
               /\ commits' = commits + 1
               /\ pending' = {}
    /\ stdout' = Append(stdout, <<"files processed", i, num_files>>)
    /\ raw' = <<>>
    /\ df' = <<>>
    /\ pos' = 0
    /\ UNCHANGED <<func, rootExists, num_files, store, error, calls,
                   executed, catalogLog, failedAt>>

\* Lines 114-115: commit, print the progress, take the next file.
Commit ==
    /\ pc = "commit"
    /\ committed' = store
    /\ commits' = commits + 1
    /\ pending' = {}
    /\ stdout' = Append(stdout, ProgressLine(i, num_files))
    /\ IF i < num_files
          THEN /\ i' = i + 1
               /\ pc' = "call"
          ELSE /\ i' = i
               /\ pc' = "done"
    /\ raw' = <<>>
    /\ df' = <<>>
    /\ pos' = 0
    /\ UNCHANGED <<func, rootExists, num_files, store, error, calls,
                   executed, catalogLog, failedAt>>

\* cur.execute(statement, params) inside the handler for file i.
Run(stmt) ==
    /\ store' = Execute(store, stmt)
    /\ executed' = Append(executed, stmt)
    /\ pending' = pending \cup {i}

\* A statement the store refuses (connection lost, constraint, bad value).
ExecuteFails ==
    /\ pc \in {"song", "artist", "time", "user", "play"}
    /\ pc = "song" => Len(df) > 0
    /\ Raise("PersistenceError")
    /\ UNCHANGED calls

-----------------------------------------------------------------------------
(* process_song_file, step by step *)

\* Line 113 with func = process_song_file, line 20: read the file.
SongFileRead ==
    /\ pc = "call"
    /\ func = "song"
    /\ calls' = calls + 1
    /\ \E content \in CatalogFiles :
          IF ~content.parses
             THEN Raise("ParseError")
             ELSE /\ executed' = <<>>
                  /\ raw' = content.rows
                  /\ df' = content.rows
                  /\ pc' = "song"
                  /\ UNCHANGED <<func, rootExists, num_files, i, pos, store,
                                 committed, error, stdout, commits, pending,
                                 catalogLog, failedAt>>

\* Lines 23-24: the song columns of the first record, then the insert.  A
\* frame without records has no such columns.
InsertSong ==
    /\ pc = "song"
    /\ IF Len(df) = 0
          THEN /\ Raise("KeyError")
               /\ UNCHANGED calls
          ELSE /\ Run(Stmt("songs", SongData(df)))
               /\ pc' = "artist"
               /\ UNCHANGED <<func, rootExists, num_files, i, raw, df, pos,
                              committed, error, stdout, calls, commits,
                              catalogLog, failedAt>>

\* Lines 27-28: the artist columns of the first record, then the insert;
\* the handler returns.
InsertArtist ==
    /\ pc = "artist"
    /\ Run(Stmt("artists", ArtistData(df)))
    /\ catalogLog' = Append(catalogLog, executed')
    /\ pc' = "commit"
    /\ UNCHANGED <<func, rootExists, num_files, i, raw, df, pos, committed,
                   error, stdout, calls, commits, failedAt>>

-----------------------------------------------------------------------------
(* Timestamps: pd.to_datetime(ts, unit='ms') and the .dt accessors. *)

MsPerDay == 86400000

MsPerHour == 3600000

\* A timestamp is a day counted from 1970-01-01 and the milliseconds into it.
ToDatetime(ms) == [days |-> ms \div MsPerDay, ms |-> ms % MsPerDay]

\* The proleptic Gregorian date of a day number, as <<year, month, day>>.
CivilFromDays(days) ==
    LET z == days + 719468
        era == z \div 146097
        doe == z - era * 146097
        yoe == (doe - doe \div 1460 + doe \div 36524 - doe \div 146096) \div 365
        doy == doe - (365 * yoe + yoe \div 4 - yoe \div 100)
        mp == (5 * doy + 2) \div 153
        d == doy - (153 * mp + 2) \div 5 + 1
        m == IF mp < 10 THEN mp + 3 ELSE mp - 9
        y == yoe + era * 400 + (IF m <= 2 THEN 1 ELSE 0)
    IN  <<y, m, d>>

DaysFromCivil(y0, m, d) ==
    LET y == IF m <= 2 THEN y0 - 1 ELSE y0
        era == y \div 400
        yoe == y - era * 400
        doy == (153 * (IF m > 2 THEN m - 3 ELSE m + 9) + 2) \div 5 + d - 1
        doe == yoe * 365 + yoe \div 4 - yoe \div 100 + doy
    IN  era * 146097 + doe - 719468

DtHour(t) == t.ms \div MsPerHour

DtDay(t) == CivilFromDays(t.days)[3]

DtMonth(t) == CivilFromDays(t.days)[2]

DtYear(t) == CivilFromDays(t.days)[1]

\* Monday is 0.
DtWeekday(t) == (t.days + 3) % 7

IsLeap(y) == (y % 4 = 0 /\ y % 100 # 0) \/ y % 400 = 0

\* ISO weeks of a year: 53 when it starts on a Thursday, or is a leap year
\* starting on a Wednesday.
WeeksInYear(y) ==
    LET jan1 == (DaysFromCivil(y, 1, 1) + 3) % 7
    IN  IF jan1 = 3 \/ (jan1 = 2 /\ IsLeap(y)) THEN 53 ELSE 52

\* The ISO 8601 week number.
DtWeek(t) ==
    LET y == DtYear(t)
        ordinal == t.days - DaysFromCivil(y, 1, 1) + 1
        w == (ordinal - (DtWeekday(t) + 1) + 10) \div 7
    IN  IF w < 1 THEN WeeksInYear(y - 1)
        ELSE IF w > WeeksInYear(y) THEN 1
        ELSE w

-----------------------------------------------------------------------------
(* process_log_file, step by step *)

\* The filter is computed and not applied.
ConvertOnly(frame) ==
    [k \in DOMAIN frame |-> [frame[k] EXCEPT !.ts = ToDatetime(@)]]

\* Lines 47-51: keep the rows whose page is NextSong, then convert their ts.
FilterNextSong(frame) ==
    LET kept == SelectSeq(frame, LAMBDA e : e.page = "NextSong")
    IN  [k \in DOMAIN kept |-> [kept[k] EXCEPT !.ts = ToDatetime(@)]]

\* The time row is keyed by the date of the timestamp.
TimeDataTruncated(row) ==
    <<[row.ts EXCEPT !.ms = 0], DtHour(row.ts), DtDay(row.ts), DtWeek(row.ts),
      DtMonth(row.ts), DtYear(row.ts), DtWeekday(row.ts)>>

\* Lines 55-57: a row of time_df.
TimeData(row) ==
    <<row.ts, DtHour(row.ts), DtDay(row.ts), DtWeek(row.ts), DtMonth(row.ts),
      DtYear(row.ts), DtWeekday(row.ts)>>

\* Line 63: a row of user_df.
UserData(row) ==
    <<row.userId, row.firstName, row.lastName, row.gender, row.level>>

\* The title and the artist name in each other's place.
SelectParamsSwapped(row) == <<row.artist, row.song, row.length>>

\* Line 73: the parameters of song_select.
SelectParams(row) == <<row.song, row.artist, row.length>>

\* Only the song identifier is taken from the fetched row.
ResolvedPartial(results) ==
    IF results # NoRow THEN <<results[1], None>> ELSE <<None, None>>

\* Lines 76-79: the identifiers of the fetched row, or two nulls.
Resolved(results) == IF results # NoRow THEN results ELSE <<None, None>>

\* Line 82: songplay_data.
SongplayData(row, ids) ==
    <<row.ts, row.userId, row.level, ids[1], ids[2], row.sessionId,
      row.location, row.userAgent>>

\* Line 113 with func = process_log_file, lines 44-52: read the file, filter
\* it and convert the timestamps.  A frame without rows has no page column.
LogFileRead ==
    /\ pc = "call"
    /\ func = "log"
    /\ calls' = calls + 1
    /\ \E content \in LogFiles :
          IF ~content.parses
             THEN Raise("ParseError")
             ELSE IF Len(content.rows) = 0
             THEN Raise("KeyError")
             ELSE /\ executed' = <<>>
                  /\ raw' = content.rows
                  /\ df' = FilterNextSong(content.rows)
                  /\ pos' = 1
                  /\ pc' = IF Len(df') = 0 THEN "commit" ELSE "time"
                  /\ UNCHANGED <<func, rootExists, num_files, i, store,
                                 committed, error, stdout, commits, pending,
                                 catalogLog, failedAt>>

\* The next row of the running iterrows loop, or the loop after it.
Advance(after) ==
    IF pos < Len(df)
       THEN /\ pos' = pos + 1
            /\ pc' = pc
       ELSE /\ pos' = 1
            /\ pc' = after

\* Lines 59-60: one pass of the loop over time_df.
InsertTime ==
    /\ pc = "time"
    /\ Run(Stmt("time", TimeData(df[pos])))
    /\ Advance("user")
    /\ UNCHANGED <<func, rootExists, num_files, i, raw, df, committed, error,
                   stdout, calls, commits, catalogLog, failedAt>>

\* Lines 66-67: one pass of the loop over user_df.
InsertUser ==
    /\ pc = "user"
    /\ Run(Stmt("users", UserData(df[pos])))
    /\ Advance("play")
    /\ UNCHANGED <<func, rootExists, num_files, i, raw, df, committed, error,
                   stdout, calls, commits, catalogLog, failedAt>>

\* Lines 70-83: one pass of the loop over df: look the song up, insert the
\* songplay; after the last row the handler returns.
InsertSongplay ==
    /\ pc = "play"
    /\ \E results \in FetchOne(SongSelect(store, SelectParams(df[pos]))) :
          Run(Stmt("songplays", SongplayData(df[pos], Resolved(results))))
    /\ Advance("commit")
    /\ UNCHANGED <<func, rootExists, num_files, i, raw, df, committed, error,
                   stdout, calls, commits, catalogLog, failedAt>>

-----------------------------------------------------------------------------
(* Specifications *)

InitCommon ==
    /\ rootExists \in BOOLEAN
    /\ pc = "start"
    /\ num_files = 0
    /\ i = 0
    /\ raw = <<>>
    /\ df = <<>>
    /\ pos = 0
    /\ committed = store
    /\ error = NoError
    /\ stdout = <<>>
    /\ calls = 0
    /\ commits = 0
    /\ pending = {}
    /\ executed = <<>>
    /\ catalogLog = <<>>
    /\ failedAt = 0

\* process_data(cur, conn, 'data/song_data', process_song_file) on an empty
\* store.
Init ==
    /\ func = "song"
    /\ store = EmptyStore
    /\ InitCommon

Next ==
    \/ Discover
    \/ SongFileRead
    \/ InsertSong
    \/ InsertArtist
    \/ ExecuteFails
    \/ Commit

Spec == Init /\ [][Next]_vars

\* The store after process_song_file handled files whose first records are
\* load[1], load[2], ...
RECURSIVE LoadCatalog(_)
LoadCatalog(load) ==
    IF load = <<>>
       THEN EmptyStore
       ELSE LET before == LoadCatalog(SubSeq(load, 1, Len(load) - 1))
                frame == <<load[Len(load)]>>
            IN  ArtistInsert(SongInsert(before, SongData(frame)),
                             ArtistData(frame))

LoadedCatalogs ==
    { LoadCatalog(load) : load \in SeqsUpTo(CatalogRecords, MaxCatalog) }

\* process_data(cur, conn, 'data/log_data', process_log_file) on a store the
\* catalog files were loaded into.
InitLog ==
    /\ func = "log"
    /\ store \in LoadedCatalogs
    /\ InitCommon

NextLog ==
    \/ Discover
    \/ LogFileRead
    \/ InsertTime
    \/ InsertUser
    \/ InsertSongplay
    \/ ExecuteFails
    \/ Commit

SpecLog == InitLog /\ [][NextLog]_vars

-----------------------------------------------------------------------------
(* Properties of process_data and process_song_file, stated of Spec. *)

Range(f) == {f[k] : k \in DOMAIN f}

SongRow(p) ==
    [song_id |-> p[1], title |-> p[2], artist_id |-> p[3], year |-> p[4],
     duration |-> p[5]]

ArtistRow(p) ==
    [artist_id |-> p[1], name |-> p[2], location |-> p[3], latitude |-> p[4],
     longitude |-> p[5]]

\* The parameters of the last statement of log, in its slot (1 the song
\* insert, 2 the artist insert), that wrote the key id.
LastParams(log, slot, id) ==
    LET last == CHOOSE j \in DOMAIN log :
                   /\ log[j][slot].params[1] = id
                   /\ \A k \in DOMAIN log :
                         log[k][slot].params[1] = id => k <= j
    IN  log[last][slot].params

\* Every key the handled files wrote has a row in s, the one last written.
Present(s, log) ==
    \A j \in DOMAIN log :
       /\ SongRow(LastParams(log, 1, log[j][1].params[1])) \in Range(s.songs)
       /\ ArtistRow(LastParams(log, 2, log[j][2].params[1])) \in Range(s.artists)

\* Every key the handled files wrote has exactly one row in s.
OneRowPerKey(s, log) ==
    \A j \in DOMAIN log :
       /\ Cardinality({k \in DOMAIN s.songs :
              s.songs[k].song_id = log[j][1].params[1]}) = 1
       /\ Cardinality({k \in DOMAIN s.artists :
              s.artists[k].artist_id = log[j][2].params[1]}) = 1

\* C1: when the handler raises on file k, the run is over with that error:
\* k handler calls were made and k-1 commits, the files before k are all
\* handled and their rows are in the committed store, and nothing of file k
\* is.
AbortSemantics ==
    /\ (failedAt > 0) = (pc = "aborted")
    /\ (failedAt > 0) = (error # NoError)
    /\ failedAt > 0 =>
          /\ calls = failedAt
          /\ commits = failedAt - 1
          /\ Len(catalogLog) = failedAt - 1
          /\ stdout = <<FoundLine(num_files)>> \o
                      [k \in 1..(failedAt - 1) |-> ProgressLine(k, num_files)]
          /\ Present(committed, catalogLog)
          /\ Len(committed.songs) <= failedAt - 1
          /\ Len(committed.artists) <= failedAt - 1
          /\ store = committed

\* The second of three catalog files is malformed and the first is loaded.
AbortWitness ==
    /\ num_files = 3
    /\ failedAt = 2
    /\ error = "ParseError"
    /\ Len(committed.songs) = 1
    /\ Len(committed.artists) = 1

\* C2: the files are handled one at a time in enumeration order, the writes
\* of file i are committed by the one commit between the return of its
\* handler and the start of the next, and N completed files make N commits.
PerFileCommit ==
    /\ pending \subseteq {i}
    /\ pc = "call" =>
          /\ calls = i - 1
          /\ commits = i - 1
          /\ pending = {}
          /\ store = committed
    /\ pc \in {"song", "artist", "commit"} =>
          /\ calls = i
          /\ commits = i - 1
    /\ pc = "done" =>
          /\ calls = num_files
          /\ commits = num_files
          /\ pending = {}
          /\ store = committed

\* Three files were handled and committed.
ThreeCommits ==
    /\ pc = "done"
    /\ num_files = 3
    /\ commits = 3
    /\ Len(committed.songs) = 2

\* C3, as claimed: with a missing or unreadable root the run ends in a
\* DiscoveryError before any file is handled or committed.
MissingRootRaises ==
    (~rootExists /\ pc # "start") =>
        /\ pc = "aborted"
        /\ error = "DiscoveryError"
        /\ calls = 0
        /\ commits = 0

\* C3, amended: with a missing or unreadable root no error is raised: no
\* file is found, "0 files found" is printed, nothing is handled or
\* committed and the run finishes normally.
MissingRootFindsNothing ==
    (~rootExists /\ pc # "start") =>
        /\ pc = "done"
        /\ error = NoError
        /\ num_files = 0
        /\ stdout = <<FoundLine(0)>>
        /\ calls = 0
        /\ commits = 0
        /\ store = committed

\* The run over a missing root has finished.
MissingRootDone == ~rootExists /\ pc = "done" /\ stdout # <<>>

\* C5: when process_song_file returns it has executed one song insert and
\* one artist insert, whose values are the fields of the file's first
\* record, unchanged, and the rows under these keys hold them.
SongFileInserts ==
    /\ pc \in {"song", "artist"} => Len(executed) <= 1
    /\ (func = "song" /\ pc = "commit") =>
          LET r == raw[1]
              song == <<r.song_id, r.title, r.artist_id, r.year, r.duration>>
              artist == <<r.artist_id, r.artist_name, r.artist_location,
                          r.artist_latitude, r.artist_longitude>>
          IN  /\ executed = <<Stmt("songs", song), Stmt("artists", artist)>>
              /\ \A row \in Range(store.songs) :
                    row.song_id = r.song_id => row = SongRow(song)
              /\ \A row \in Range(store.artists) :
                    row.artist_id = r.artist_id => row = ArtistRow(artist)
              /\ HasKey(store.songs, "song_id", r.song_id)
              /\ HasKey(store.artists, "artist_id", r.artist_id)

\* A file of two different records was handled.
TwoRecordFileHandled ==
    /\ func = "song"
    /\ pc = "commit"
    /\ Len(raw) = 2
    /\ raw[1].song_id # raw[2].song_id
    /\ raw[1].artist_id # raw[2].artist_id

\* C8: however often a catalog file is processed, the store holds one Song
\* row and one Artist row for its identifiers, with the values of the most
\* recent processing.
IdempotentCatalogLoad ==
    /\ commits <= Len(catalogLog)
    /\ OneRowPerKey(committed, SubSeq(catalogLog, 1, commits))
    /\ Present(committed, SubSeq(catalogLog, 1, commits))
    /\ pc = "commit" =>
          /\ OneRowPerKey(store, catalogLog)
          /\ Present(store, catalogLog)

\* The same file was processed twice, with another one in between, and
\* committed both times.
SameFileTwice ==
    /\ commits = 3
    /\ catalogLog[1] = catalogLog[3]
    /\ catalogLog[1][1].params[1] = catalogLog[2][1].params[1]
    /\ catalogLog[1] # catalogLog[2]

References(s) ==
    \A k \in DOMAIN s.songs : HasKey(s.artists, "artist_id", s.songs[k].artist_id)

\* C10, as claimed: at the moment a Song row is inserted, and at every
\* commit point, an Artist row with its artist_id is in the store.
SongsReferenceArtists == References(store) /\ References(committed)

\* C10, amended: at every commit point, and whenever the handler is not
\* between its two inserts, every Song row has an Artist row with its
\* artist_id; the Song row is inserted before the Artist row of its record.
SongsReferenceArtistsAtCommit ==
    /\ References(committed)
    /\ pc # "artist" => References(store)

\* Two songs of two artists are committed.
TwoSongsCommitted ==
    /\ commits = 2
    /\ Len(committed.songs) = 2
    /\ Len(committed.artists) = 2

-----------------------------------------------------------------------------
(* Properties of process_log_file, stated of SpecLog. *)

RECURSIVE NextSongCount(_)
NextSongCount(frame) ==
    IF frame = <<>>
       THEN 0
       ELSE (IF Head(frame).page = "NextSong" THEN 1 ELSE 0)
            + NextSongCount(Tail(frame))

CountOf(table) ==
    Cardinality({k \in DOMAIN executed : executed[k].table = table})

\* C4: when process_log_file returns, the Time inserts, the User inserts
\* and the Songplay inserts each number the events of the file whose page is
\* NextSong, and nothing else was inserted.
NextSongCounts ==
    (func = "log" /\ pc = "commit") =>
        LET n == NextSongCount(raw)
        IN  /\ CountOf("time") = n
            /\ CountOf("users") = n
            /\ CountOf("songplays") = n
            /\ Len(executed) = 3 * n
            /\ Len(store.songplays) = Len(committed.songplays) + n
            /\ store.songs = committed.songs
            /\ store.artists = committed.artists

\* A file of one play and one other page view was handled.
MixedFileHandled ==
    /\ func = "log"
    /\ pc = "commit"
    /\ Len(raw) = 2
    /\ NextSongCount(raw) = 1
    /\ Len(executed) = 3

BothOrNeither(plays) ==
    \A k \in DOMAIN plays :
        (plays[k].song_id = None) = (plays[k].artist_id = None)

\* C6: in every Songplay row, in the transaction or committed, song_id and
\* artist_id are both null or both not null.
SongplayIdsBothOrNeither ==
    /\ BothOrNeither(store.songplays)
    /\ BothOrNeither(committed.songplays)

\* A resolved and an unresolved Songplay row are committed.
HitAndMissCommitted ==
    /\ \E k \in DOMAIN committed.songplays :
          committed.songplays[k].song_id # None
    /\ \E k \in DOMAIN committed.songplays :
          committed.songplays[k].song_id = None

TimeExists(s) ==
    \A k \in DOMAIN s.songplays :
        HasKey(s.time, "start_time", s.songplays[k].start_time)

\* C7: a Songplay insert follows, in the same pass, a Time insert with the
\* timestamp of the same event, so every Songplay row, in the transaction or
\* committed, has a Time row with its timestamp.
SongplayTimeExists ==
    /\ TimeExists(store)
    /\ TimeExists(committed)
    /\ \A m \in DOMAIN executed :
          executed[m].table = "songplays" =>
             \E n \in 1..(m - 1) :
                /\ executed[n].table = "time"
                /\ executed[n].params[1] = executed[m].params[1]
    /\ pc = "play" => CountOf("time") = Len(df)

\* The first of two plays at different times has its Songplay row, in a
\* transaction that is still open.
SongplayInserted ==
    /\ pc = "play"
    /\ pos = 2
    /\ df[1].ts # df[2].ts
    /\ Len(store.songplays) = Len(committed.songplays) + 1

\* The (song_id, artist_id) of the joined catalog rows of s that equal the
\* event in title, artist name and duration.
CatalogMatches(s, ev) ==
    { <<song.song_id, artist.artist_id>> :
        <<song, artist>> \in { x \in Range(s.songs) \X Range(s.artists) :
            /\ x[1].artist_id = x[2].artist_id
            /\ x[1].title = ev.song
            /\ x[2].name = ev.artist
            /\ x[1].duration = ev.length } }

\* C9: the Songplay row of an event with exactly one matching catalog row
\* has that row's identifiers, the row of an event with none has two nulls,
\* and every event of the file gets its row.
ResolverResult ==
    /\ (func = "log" /\ pc \in {"play", "commit"}) =>
          \A k \in 1..CountOf("songplays") :
             LET row == store.songplays[Len(store.songplays)
                                        - CountOf("songplays") + k]
                 found == CatalogMatches(store, df[k])
             IN  /\ row.start_time = df[k].ts
                 /\ Cardinality(found) = 1 =>
                       <<row.song_id, row.artist_id>> \in found
                 /\ found = {} =>
                       (row.song_id = None /\ row.artist_id = None)
    /\ (func = "log" /\ pc = "commit") => CountOf("songplays") = Len(df)

\* A file with a matching and a missing event was handled.
HitAndMissHandled ==
    /\ func = "log"
    /\ pc = "commit"
    /\ Len(df) = 2
    /\ Cardinality(CatalogMatches(store, df[1])) = 1
    /\ CatalogMatches(store, df[2]) = {}
    /\ store.songplays[Len(store.songplays)].song_id = None
    /\ store.songplays[Len(store.songplays) - 1].song_id # None

====
